---- MODULE Spec2Model ----
(***************************************************************************)
(* The Search view of the donation-exchange application                    *)
(* (src/src/pages/Search.tsx): URL query, page, result page, the lodash    *)
(* debounced search function memoised per page value, the timers it arms,  *)
(* and the remote search fetches in flight.                                *)
(*                                                                         *)
(* Time advances in ticks; the 300 ms wait of debounce(...) is WaitTicks   *)
(* ticks.  A user input, a timer expiry and a fetch completion are each    *)
(* one step (one task of the single-threaded event loop).                  *)
(***************************************************************************)
EXTENDS Integers, Sequences, FiniteSets, TLC

VARIABLES
    mounted,        \* the Search view is mounted
    q,              \* searchParams.get('q') || ''
    page,           \* useState(1)
    results,        \* useState<SearchResult[]>([])
    totalResults,   \* useState(0)
    loading,        \* useState(false)
    inst,           \* the memoised debounced function: closure page, timer, lastArgs
    orphans,        \* timers of debounced functions dropped by useCallback, still armed
    inflight,       \* remote search calls dispatched and not completed
    last,           \* the remote search call that completed last (history)
    newest,         \* the latest-dispatched call among those applied, and what it set (history)
    nextId,         \* number of remote search calls dispatched so far, plus one
    fault,          \* a rejection escaped the debounced handler
    calls,          \* remote calls dispatched since the current input burst began (history)
    served,         \* a call for the current q and page was dispatched since the effect last ran (history)
    inputsLeft,     \* user inputs still to come
    ev,             \* the kind of the last step (history)
    urlKeys,        \* names of the parameters in the URL's query string
    suggestions,    \* useState<string[]>([])
    sugInflight,    \* remote suggestion calls dispatched and not completed
    selectedCategories,     \* useState<string[]>([])
    selectedConditions,     \* useState<string[]>([])
    priceRange,     \* useState<[number, number]>([0, 1000])
    sortBy,         \* useState<SortOption>('newest')
    dashboard,      \* Dashboard: its state hooks and the position of loadDashboardData
    register,       \* Register: its state hooks and the position of handleRegister
    createItem,     \* CreateItem: photos, previews, error, file readers at work
    profileEdit,    \* Profile: profile, bioLength, updateProfile calls under way
    db              \* the remote store as far as the open view reads and writes it

sugVars == <<suggestions, sugInflight>>
formVars == <<selectedCategories, selectedConditions, priceRange, sortBy>>

\* the Search view
searchVars == <<mounted, q, page, results, totalResults, loading, inst, orphans,
                inflight, last, newest, nextId, fault, calls, served,
                inputsLeft, ev, urlKeys, sugVars, formVars>>

\* the other views
otherVars == <<dashboard, register, createItem, profileEdit, db>>

vars == <<searchVars, otherVars>>

----------------------------------------------------------------------------
(* Bounds *)

MaxInputs == 2          \* user inputs per behaviour
WaitTicks == 2          \* clock ticks in the debounce wait

Queries == {"", "la", "lamp"}           \* texts the user can put in the box
Totals == {0, 12, 13, 25}               \* exact counts the store can report
MaxTotal == 60          \* largest total the page count is computed for

Texts == Queries \cup {"l"}             \* texts typed while suggestions are watched
Categories == {"Books"}                 \* one of the nine category checkboxes
Conditions == {"GOOD", "WORN"}          \* two of the four condition checkboxes
PriceInputs == {-1, 0, 500, 2000}       \* numbers typed in a price input
SortOptions == {"newest", "oldest", "relevance"}
UrlExtras == {"ref"}                    \* parameters other than q a link can carry

----------------------------------------------------------------------------
(* Constants of the program *)

ITEMS_PER_PAGE == 12

----------------------------------------------------------------------------
(* Pure helpers *)

Min(a, b) == IF a < b THEN a ELSE b
Max(a, b) == IF a > b THEN a ELSE b

\* Math.ceil(a / b) for a >= 0, b > 0
CeilDiv(a, b) == (a + b - 1) \div b

\* faulty variant: Math.floor in place of Math.ceil
PageCountFloor(total) == total \div ITEMS_PER_PAGE

\* Math.ceil(totalResults / ITEMS_PER_PAGE)
PageCount(total) == CeilDiv(total, ITEMS_PER_PAGE)

\* .range((page - 1) * ITEMS_PER_PAGE, page * ITEMS_PER_PAGE - 1)
RangeFrom(p) == (p - 1) * ITEMS_PER_PAGE

\* faulty variant: the upper end of the range is one row too far
RangeToNextPage(p) == p * ITEMS_PER_PAGE

RangeTo(p) == p * ITEMS_PER_PAGE - 1

\* the rows the store returns for a query matching `count` rows, in the
\* inclusive range [from, to]: row i of the ordered match list, i from 0
StoreRows(query, count, from, to) ==
    LET n == Max(0, Min(to, count - 1) - from + 1)
    IN  [i \in 1..n |-> [q |-> query, idx |-> from + i - 1]]

----------------------------------------------------------------------------
(* The debounced function and the handler it wraps *)

\* faulty variant: leading-edge invocation, no wait
DebounceCallNow(d, query) ==
    [d EXCEPT !.armed = TRUE, !.arg = query, !.left = 0]

\* debounced(query): lastArgs := query, the wait restarts from now
DebounceCall(d, query) ==
    [d EXCEPT !.armed = TRUE, !.arg = query, !.left = WaitTicks]

\* faulty variant: the guard on the empty query is missing
ShouldSearchAlways(query) == TRUE

\* if (!query) return;
ShouldSearch(query) == query # ""

\* faulty variant: the catch block clears the result page
OnFailureClear(v) ==
    [results |-> <<>>, totalResults |-> 0, loading |-> FALSE]

\* catch { console.error } finally { setLoading(false) }
OnFailure(v) ==
    [results |-> v.results, totalResults |-> v.totalResults, loading |-> FALSE]

\* setResults(data || []); setTotalResults(count || 0); finally setLoading(false)
OnSuccess(v, data, count) ==
    [results |-> data, totalResults |-> count, loading |-> FALSE]

\* try { await ...; if (error) throw error } catch (error) { ... }: the
\* thrown error of the response and a rejection of the await are both caught
Caught(outcome) == outcome \in {"error", "throw"}

\* faulty variant: only a change of the URL re-runs the effect
EffectRunsOnQueryOnly(q0, p0, q1, p1) == q1 # q0

\* useEffect deps [searchParams, page, debouncedSearch]; debouncedSearch
\* changes exactly when page does (useCallback deps [page])
EffectRuns(q0, p0, q1, p1) == q1 # q0 \/ p1 # p0

\* debounce(async (query) => {...}, 300) as built in a render with page p
NewDebounced(p) == [page |-> p, armed |-> FALSE, arg |-> "", left |-> 0]

----------------------------------------------------------------------------
(* Suggestions, filters *)

\* faulty variant: a single character is enough to ask for suggestions
SuggestFiresFromOne(text) == Len(text) >= 1

\* if (!query || query.length < 2) { setSuggestions([]); return; }
SuggestFires(text) == ~(text = "" \/ Len(text) < 2)

\* the titles the store answers for a partial text: at most five titles
\* that match it
SuggestTitles(text) ==
    IF text = "la" THEN <<"la", "lamp">>
    ELSE IF text = "lamp" THEN <<"lamp">>
    ELSE <<>>

\* selected.includes(value)
Includes(sel, value) == \E i \in 1..Len(sel) : sel[i] = value

\* [...selected, value]
Checked(sel, value) == Append(sel, value)

\* faulty variant: unchecking a box empties the selection
UncheckedAll(sel, value) == <<>>

\* selected.filter(c => c !== value), of a checkbox
Unchecked(sel, value) == SelectSeq(sel, LAMBDA c : c # value)

\* e.target.checked ? [...selected, value] : selected.filter(c => c !== value);
\* e.target.checked is the opposite of the checked attribute the box was
\* rendered with, selected.includes(value)
Toggled(sel, value) ==
    IF ~Includes(sel, value) THEN Checked(sel, value) ELSE Unchecked(sel, value)

\* faulty variant: the chip's button leaves the selection as it is
ChipRemovedNone(sel, value) == sel

\* selected.filter(c => c !== value), of a chip's remove button
ChipRemoved(sel, value) == SelectSeq(sel, LAMBDA c : c # value)

AsSet(sel) == {sel[i] : i \in 1..Len(sel)}

----------------------------------------------------------------------------
(* State *)

\* a view that is not on screen
Closed == [pc |-> "closed"]

\* the Search view is on screen, the other views are not
OthersClosed ==
    /\ dashboard = Closed
    /\ register = Closed
    /\ createItem = Closed
    /\ profileEdit = Closed
    /\ db = <<>>

Event(kind, arg, p) == [kind |-> kind, arg |-> arg, page |-> p]

View == [results |-> results, totalResults |-> totalResults, loading |-> loading]

TimerPending == inst.armed \/ Len(orphans) > 0

\* some armed timer has waited its 300 ms
TimerDue ==
    \/ inst.armed /\ inst.left = 0
    \/ \E i \in 1..Len(orphans) : orphans[i].left = 0

\* value={searchParams.get('q') || ''}
BoxValue == IF "q" \in urlKeys THEN q ELSE ""

\* loading ? <spinner> : results.length > 0 ? <grid> : "No results found"
Rendered ==
    IF loading THEN "spinner"
    ELSE IF Len(results) > 0 THEN "grid"
    ELSE "noResults"

\* loading ? ... : results.length > 0 ? (... totalResults > ITEMS_PER_PAGE && ...)
PaginationShown ==
    mounted /\ ~loading /\ Len(results) > 0 /\ totalResults > ITEMS_PER_PAGE

\* disabled={page === 1}
PrevDisabled == page = 1

\* disabled={page >= Math.ceil(totalResults / ITEMS_PER_PAGE)}
NextDisabled == page >= PageCount(totalResults)

NoFetch == [id |-> 0, query |-> "", page |-> 0, outcome |-> "none",
            prevResults |-> <<>>, prevTotal |-> 0]

\* the state hooks of the suggestion list and of the filter panel
InitForm ==
    /\ suggestions = <<>>
    /\ sugInflight = <<>>
    /\ selectedCategories = <<>>
    /\ selectedConditions = <<>>
    /\ priceRange = <<0, 1000>>
    /\ sortBy = "newest"

Init ==
    /\ mounted = TRUE
    /\ q \in Queries
    /\ page = 1
    /\ results = <<>>
    /\ totalResults = 0
    /\ loading = FALSE
    /\ inst = DebounceCall(NewDebounced(1), q)
    /\ orphans = <<>>
    /\ inflight = {}
    /\ last = NoFetch
    /\ newest = [id |-> 0, results |-> <<>>, totalResults |-> 0]
    /\ nextId = 1
    /\ fault = FALSE
    /\ calls = 0
    /\ served = FALSE
    /\ inputsLeft = MaxInputs
    /\ ev = Event("mount", q, 1)
    /\ urlKeys = IF q = "" THEN {} ELSE {"q"}
    /\ InitForm
    /\ OthersClosed

----------------------------------------------------------------------------
(* Renders and effects *)

\* The render after the URL and the page become q1 and p1, and the effect
\* that follows it.  A new page makes useCallback build a new debounced
\* function; the previous one is dropped with its timer still armed.
Rerender(q1, p1) ==
    LET d0 == IF p1 # page THEN NewDebounced(p1) ELSE inst
    IN  /\ q' = q1
        /\ page' = p1
        /\ orphans' = IF p1 # page /\ inst.armed
                        THEN Append(orphans, [page |-> inst.page, arg |-> inst.arg,
                                              left |-> inst.left])
                        ELSE orphans
        /\ inst' = IF EffectRuns(q, page, q1, p1) THEN DebounceCall(d0, q1) ELSE d0
        /\ served' = IF q1 # q \/ p1 # page THEN FALSE ELSE served

\* An event of the user, handled after the timers that were due before it
UserInput ==
    /\ mounted
    /\ ~TimerDue
    /\ inputsLeft > 0
    /\ inputsLeft' = inputsLeft - 1
    /\ calls' = IF TimerPending THEN calls ELSE 0

\* faulty variant: q is merged into the parameters the URL already has
HandleSearchMerge(query) ==
    /\ Rerender(query, 1)
    /\ urlKeys' = urlKeys \cup {"q"}

\* handleSearch(query): setSearchParams({ q: query }); setPage(1).  The
\* object given to setSearchParams replaces every parameter of the URL.
HandleSearch(query) ==
    /\ Rerender(query, 1)
    /\ urlKeys' = {"q"}

\* loadSuggestions(query) up to its await
LoadSuggestions(text) ==
    IF SuggestFires(text)
      THEN /\ sugInflight' = Append(sugInflight, text)
           /\ UNCHANGED suggestions
      ELSE /\ suggestions' = <<>>
           /\ UNCHANGED sugInflight

\* onChange of the search box: the typed text differs from the shown one
Type(text) ==
    /\ UserInput
    /\ text # q
    /\ HandleSearch(text)
    /\ LoadSuggestions(text)
    /\ ev' = Event("type", text, 1)
    /\ UNCHANGED <<mounted, results, totalResults, loading, inflight, last,
                   newest, nextId, fault, formVars, otherVars>>

\* onClick of the i-th suggestion button: handleSearch(suggestion);
\* setSuggestions([])
SelectSuggestion(i) ==
    /\ UserInput
    /\ i \in 1..Len(suggestions)
    /\ HandleSearch(suggestions[i])
    /\ suggestions' = <<>>
    /\ ev' = Event("select", suggestions[i], 1)
    /\ UNCHANGED <<mounted, results, totalResults, loading, inflight, last,
                   newest, nextId, fault, sugInflight, formVars, otherVars>>

\* Previous: onClick={() => setPage(page - 1)}
PrevClick ==
    /\ UserInput
    /\ PaginationShown
    /\ ~PrevDisabled
    /\ Rerender(q, page - 1)
    /\ ev' = Event("prev", q, page - 1)
    /\ UNCHANGED <<mounted, results, totalResults, loading, inflight, last,
                   newest, nextId, fault, urlKeys, sugVars, formVars, otherVars>>

\* Next: onClick={() => setPage(page + 1)}
NextClick ==
    /\ UserInput
    /\ PaginationShown
    /\ ~NextDisabled
    /\ Rerender(q, page + 1)
    /\ ev' = Event("next", q, page + 1)
    /\ UNCHANGED <<mounted, results, totalResults, loading, inflight, last,
                   newest, nextId, fault, urlKeys, sugVars, formVars, otherVars>>

\* handleFilterChange(), called by every category, condition and chip
\* handler after it has updated its selection: setPage(1)
FilterChange ==
    /\ UserInput
    /\ Rerender(q, 1)
    /\ UNCHANGED <<mounted, results, totalResults, loading, inflight, last,
                   newest, nextId, fault, urlKeys, sugVars, otherVars>>

\* onChange of a category checkbox
ToggleCategory(c) ==
    /\ FilterChange
    /\ selectedCategories' = Toggled(selectedCategories, c)
    /\ ev' = Event("toggleCategory", c, page)
    /\ UNCHANGED <<selectedConditions, priceRange, sortBy>>

\* onChange of a condition checkbox
ToggleCondition(c) ==
    /\ FilterChange
    /\ selectedConditions' = Toggled(selectedConditions, c)
    /\ ev' = Event("toggleCondition", c, page)
    /\ UNCHANGED <<selectedCategories, priceRange, sortBy>>

\* onClick of the remove button of a category chip; a chip is rendered for
\* each selected category
RemoveCategoryChip(c) ==
    /\ Includes(selectedCategories, c)
    /\ FilterChange
    /\ selectedCategories' = ChipRemoved(selectedCategories, c)
    /\ ev' = Event("chipCategory", c, page)
    /\ UNCHANGED <<selectedConditions, priceRange, sortBy>>

\* onClick of the remove button of a condition chip
RemoveConditionChip(c) ==
    /\ Includes(selectedConditions, c)
    /\ FilterChange
    /\ selectedConditions' = ChipRemoved(selectedConditions, c)
    /\ ev' = Event("chipCondition", c, page)
    /\ UNCHANGED <<selectedCategories, priceRange, sortBy>>

\* what no handler of the price inputs and of the sort select touches
FormOnly ==
    UNCHANGED <<mounted, q, page, results, totalResults, loading, inst,
                orphans, inflight, last, newest, nextId, fault, served,
                urlKeys, sugVars, otherVars>>

\* onChange of the lower price input:
\* setPriceRange([Number(e.target.value), priceRange[1]])
SetPriceLower(v) ==
    /\ UserInput
    /\ v # priceRange[1]
    /\ priceRange' = <<v, priceRange[2]>>
    /\ ev' = Event("priceLower", "", page)
    /\ FormOnly
    /\ UNCHANGED <<selectedCategories, selectedConditions, sortBy>>

\* onChange of the upper price input:
\* setPriceRange([priceRange[0], Number(e.target.value)])
SetPriceUpper(v) ==
    /\ UserInput
    /\ v # priceRange[2]
    /\ priceRange' = <<priceRange[1], v>>
    /\ ev' = Event("priceUpper", "", page)
    /\ FormOnly
    /\ UNCHANGED <<selectedCategories, selectedConditions, sortBy>>

\* onChange of the sort select: setSortBy(e.target.value)
SetSortBy(o) ==
    /\ UserInput
    /\ o # sortBy
    /\ sortBy' = o
    /\ ev' = Event("sort", o, page)
    /\ FormOnly
    /\ UNCHANGED <<selectedCategories, selectedConditions, priceRange>>

\* The view is removed; the effect returns no cleanup, no timer is cleared
Unmount ==
    /\ mounted
    /\ ~TimerDue
    /\ inputsLeft > 0
    /\ inputsLeft' = inputsLeft - 1
    /\ mounted' = FALSE
    /\ ev' = Event("unmount", q, page)
    /\ UNCHANGED <<q, page, results, totalResults, loading, inst, orphans,
                   inflight, last, newest, nextId, fault, calls, served,
                   urlKeys, sugVars, formVars, otherVars>>

----------------------------------------------------------------------------
(* Timers and remote calls *)

RemoveAt(s, i) == [j \in 1..(Len(s) - 1) |-> IF j < i THEN s[j] ELSE s[j + 1]]

\* The body of the debounced function, run by a timer whose debounced
\* function was built with page p and last called with query: the guard,
\* setLoading(true), and the remote call up to its await.  Setters of an
\* unmounted view change nothing.
SearchBody(query, p) ==
    IF ShouldSearch(query)
      THEN /\ loading' = IF mounted THEN TRUE ELSE loading
           /\ inflight' = inflight \cup
                 {[id |-> nextId, query |-> query, page |-> p,
                   prevResults |-> results, prevTotal |-> totalResults]}
           /\ nextId' = nextId + 1
           /\ calls' = calls + 1
           /\ served' = (served \/ (query = q /\ p = page))
      ELSE UNCHANGED <<loading, inflight, nextId, calls, served>>

\* The timer of the memoised debounced function expires (trailing edge)
FireInst ==
    /\ inst.armed
    /\ inst.left = 0
    /\ inst' = [inst EXCEPT !.armed = FALSE, !.arg = ""]
    /\ SearchBody(inst.arg, inst.page)
    /\ ev' = Event("fire", inst.arg, inst.page)
    /\ UNCHANGED <<mounted, q, page, results, totalResults, orphans, last,
                   newest, fault, inputsLeft, urlKeys, sugVars, formVars, otherVars>>

\* The timer of a dropped debounced function expires
FireOrphan(i) ==
    /\ orphans[i].left = 0
    /\ orphans' = RemoveAt(orphans, i)
    /\ SearchBody(orphans[i].arg, orphans[i].page)
    /\ ev' = Event("fireOrphan", orphans[i].arg, orphans[i].page)
    /\ UNCHANGED <<mounted, q, page, results, totalResults, inst, last,
                   newest, fault, inputsLeft, urlKeys, sugVars, formVars, otherVars>>

FireOrphans == \E i \in 1..Len(orphans) : FireOrphan(i)

\* The awaited remote call of f settles: rows and exact count, an error
\* in the response, or a rejection
Complete(f, outcome, count) ==
    LET data == StoreRows(f.query, count, RangeFrom(f.page), RangeTo(f.page))
        v == IF outcome = "ok" THEN OnSuccess(View, data, count) ELSE OnFailure(View)
        escaped == outcome # "ok" /\ ~Caught(outcome)
    IN  /\ inflight' = inflight \ {f}
        /\ last' = [id |-> f.id, query |-> f.query, page |-> f.page,
                    outcome |-> outcome,
                    prevResults |-> f.prevResults, prevTotal |-> f.prevTotal]
        /\ newest' = IF mounted /\ outcome = "ok" /\ f.id > newest.id
                       THEN [id |-> f.id, results |-> data, totalResults |-> count]
                       ELSE newest
        /\ IF mounted
             THEN /\ results' = v.results
                  /\ totalResults' = v.totalResults
                  /\ loading' = v.loading
             ELSE UNCHANGED <<results, totalResults, loading>>
        /\ fault' = (fault \/ escaped)
        /\ ev' = Event(outcome, f.query, f.page)
        /\ UNCHANGED <<mounted, q, page, inst, orphans, nextId, calls, served,
                       inputsLeft, urlKeys, sugVars, formVars, otherVars>>

CompleteOk == \E f \in inflight, count \in Totals : Complete(f, "ok", count)
CompleteError == \E f \in inflight : Complete(f, "error", 0)
CompleteThrow == \E f \in inflight : Complete(f, "throw", 0)

\* The awaited remote call of loadSuggestions settles: the titles, or an
\* error in the response or a rejection, both caught and logged
SugComplete(i, outcome) ==
    /\ sugInflight' = RemoveAt(sugInflight, i)
    /\ suggestions' = IF mounted /\ outcome = "ok"
                        THEN SuggestTitles(sugInflight[i])
                        ELSE suggestions
    /\ ev' = Event(IF outcome = "ok" THEN "suggested" ELSE "suggestFailed",
                   sugInflight[i], page)
    /\ UNCHANGED <<mounted, q, page, results, totalResults, loading, inst,
                   orphans, inflight, last, newest, nextId, fault, calls,
                   served, inputsLeft, urlKeys, formVars, otherVars>>

SugCompleteOk == \E i \in 1..Len(sugInflight) : SugComplete(i, "ok")
SugCompleteError ==
    \E i \in 1..Len(sugInflight), outcome \in {"error", "throw"} :
        SugComplete(i, outcome)

\* Time passes: every armed timer comes one tick closer; a due timer runs
\* before the clock moves on
Tick ==
    /\ TimerPending
    /\ ~TimerDue
    /\ inst' = IF inst.armed THEN [inst EXCEPT !.left = @ - 1] ELSE inst
    /\ orphans' = [i \in 1..Len(orphans) |-> [orphans[i] EXCEPT !.left = @ - 1]]
    /\ ev' = Event("tick", "", 0)
    /\ UNCHANGED <<mounted, q, page, results, totalResults, loading, inflight,
                   last, newest, nextId, fault, calls, served, inputsLeft,
                   urlKeys, sugVars, formVars, otherVars>>

Next ==
    \/ \E text \in Queries : Type(text)
    \/ PrevClick
    \/ NextClick
    \/ \E c \in Categories : ToggleCategory(c)
    \/ Unmount
    \/ FireInst
    \/ FireOrphans
    \/ CompleteOk
    \/ CompleteError
    \/ CompleteThrow
    \/ Tick

Spec == Init /\ [][Next]_vars

\* The page count as a function of the total: every total up to MaxTotal
\* is stored, and the expression of the "Page x of y" label is evaluated
PageInit ==
    /\ mounted = TRUE
    /\ q = "la"
    /\ page = 1
    /\ totalResults \in 0..MaxTotal
    /\ results = StoreRows("la", totalResults, RangeFrom(1), RangeTo(1))
    /\ loading = FALSE
    /\ inst = NewDebounced(1)
    /\ orphans = <<>>
    /\ inflight = {}
    /\ last = NoFetch
    /\ newest = [id |-> 0, results |-> <<>>, totalResults |-> 0]
    /\ nextId = 1
    /\ fault = FALSE
    /\ calls = 0
    /\ served = FALSE
    /\ inputsLeft = 0
    /\ ev = Event("mount", "la", 1)
    /\ urlKeys = {"q"}
    /\ InitForm
    /\ OthersClosed

\* Page {page} of {Math.ceil(totalResults / ITEMS_PER_PAGE)}
PageLabel ==
    /\ ev.kind = "mount"
    /\ ev' = Event("label", q, PageCount(totalResults))
    /\ UNCHANGED <<mounted, q, page, results, totalResults, loading, inst,
                   orphans, inflight, last, newest, nextId, fault, calls,
                   served, inputsLeft, urlKeys, sugVars, formVars, otherVars>>

PageSpec == PageInit /\ [][PageLabel]_vars

\* The filter panel at work: the view has been opened on a link to ?q=la
\* that carries other parameters too, and the first search has completed
\* with 25 rows, so that the pagination is on display.  The user has one
\* input more than elsewhere: a chip exists after a toggle, and is on a
\* page other than 1 after a page click.
FormInit ==
    /\ mounted = TRUE
    /\ q = "la"
    /\ page = 1
    /\ results = StoreRows("la", 25, RangeFrom(1), RangeTo(1))
    /\ totalResults = 25
    /\ loading = FALSE
    /\ inst = NewDebounced(1)
    /\ orphans = <<>>
    /\ inflight = {}
    /\ last = [id |-> 1, query |-> "la", page |-> 1, outcome |-> "ok",
               prevResults |-> <<>>, prevTotal |-> 0]
    /\ newest = [id |-> 1, results |-> results, totalResults |-> 25]
    /\ nextId = 2
    /\ fault = FALSE
    /\ calls = 1
    /\ served = TRUE
    /\ inputsLeft = MaxInputs + 1
    /\ ev = Event("ok", "la", 1)
    /\ urlKeys = {"q"} \cup UrlExtras
    /\ InitForm
    /\ OthersClosed

FormNext ==
    \/ \E c \in Categories : ToggleCategory(c)
    \/ \E c \in Conditions : ToggleCondition(c)
    \/ \E c \in Categories : RemoveCategoryChip(c)
    \/ \E c \in Conditions : RemoveConditionChip(c)
    \/ \E v \in PriceInputs : SetPriceLower(v)
    \/ \E v \in PriceInputs : SetPriceUpper(v)
    \/ \E o \in SortOptions : SetSortBy(o)
    \/ \E text \in Queries : Type(text)
    \/ PrevClick
    \/ NextClick
    \/ FireInst
    \/ FireOrphans
    \/ Tick

FormSpec == FormInit /\ [][FormNext]_vars

\* The search box and its suggestion list at work: the user has typed "la"
\* in the empty box, the search for it has completed with 25 rows, and the
\* remote call for its suggestions has not completed yet
SuggestInit ==
    /\ mounted = TRUE
    /\ q = "la"
    /\ page = 1
    /\ results = StoreRows("la", 25, RangeFrom(1), RangeTo(1))
    /\ totalResults = 25
    /\ loading = FALSE
    /\ inst = NewDebounced(1)
    /\ orphans = <<>>
    /\ inflight = {}
    /\ last = [id |-> 1, query |-> "la", page |-> 1, outcome |-> "ok",
               prevResults |-> <<>>, prevTotal |-> 0]
    /\ newest = [id |-> 1, results |-> results, totalResults |-> 25]
    /\ nextId = 2
    /\ fault = FALSE
    /\ calls = 1
    /\ served = TRUE
    /\ inputsLeft = MaxInputs
    /\ ev = Event("ok", "la", 1)
    /\ urlKeys = {"q"}
    /\ suggestions = <<>>
    /\ sugInflight = <<"la">>
    /\ selectedCategories = <<>>
    /\ selectedConditions = <<>>
    /\ priceRange = <<0, 1000>>
    /\ sortBy = "newest"
    /\ OthersClosed

SuggestNext ==
    \/ \E text \in Texts : Type(text)
    \/ \E i \in 1..Len(suggestions) : SelectSuggestion(i)
    \/ SugCompleteOk
    \/ SugCompleteError
    \/ PrevClick
    \/ NextClick
    \/ Unmount
    \/ FireInst
    \/ FireOrphans
    \/ Tick

SuggestSpec == SuggestInit /\ [][SuggestNext]_vars

\* Armed timers expire and run: the event loop's timer queue
LiveSpec ==
    Init /\ [][Next]_vars /\ WF_vars(Tick) /\ WF_vars(FireInst) /\ WF_vars(FireOrphans)

----------------------------------------------------------------------------
(* Dashboard: loadDashboardData *)

Null == "null"                          \* null or undefined
Roles == {"DONOR", "BENEFICIARY", "MANAGER"}
CallOutcomes == {"ok", "error", "throw"}    \* rows, { error }, or a rejection

\* the Search view is not on screen
SearchClosed ==
    /\ mounted = FALSE
    /\ q = ""
    /\ page = 1
    /\ results = <<>>
    /\ totalResults = 0
    /\ loading = FALSE
    /\ inst = NewDebounced(1)
    /\ orphans = <<>>
    /\ inflight = {}
    /\ last = NoFetch
    /\ newest = [id |-> 0, results |-> <<>>, totalResults |-> 0]
    /\ nextId = 1
    /\ fault = FALSE
    /\ calls = 0
    /\ served = FALSE
    /\ inputsLeft = 0
    /\ ev = Event("closed", "", 1)
    /\ urlKeys = {}
    /\ InitForm

\* role: user.user_metadata.role || 'DONOR'
InsertedRole(metaRole) == IF metaRole = Null THEN "DONOR" ELSE metaRole

\* the if / else if chain over profileData?.role and user.user_metadata.role:
\* the table whose rows become the items, Null when no branch is taken
ItemsTable(profileData, metaRole) ==
    IF profileData = "DONOR" \/ (profileData = Null /\ metaRole = "DONOR")
      THEN "announcements"
    ELSE IF profileData = "BENEFICIARY"
              \/ (profileData = Null /\ metaRole = "BENEFICIARY")
      THEN "wishlists"
    ELSE IF profileData = "MANAGER" THEN "activity_logs"
    ELSE Null

\* the sections of the dashboard: the table a role's items come from
RoleTable(role) ==
    IF role = "DONOR" THEN "announcements"
    ELSE IF role = "BENEFICIARY" THEN "wishlists"
    ELSE "activity_logs"

\* if (loading) <spinner>; if (error) <banner with Retry>; else the dashboard
DashboardRendered ==
    IF dashboard.loading THEN "spinner"
    ELSE IF dashboard.error # Null THEN "banner"
    ELSE "dashboard"

\* The view is mounted and the effect has called loadDashboardData, which
\* waits for getUser.  The session, the sign-up metadata and the profile
\* row are what the store holds; emailBound tells whether the free
\* identifier email of the insert's argument resolves to a string in the
\* scope the build gives the module.
DashboardInit ==
    /\ SearchClosed
    /\ register = Closed
    /\ createItem = Closed
    /\ profileEdit = Closed
    /\ \E signedIn \in BOOLEAN, metaRole \in Roles \cup {Null},
          row \in Roles \cup {Null} :
         db = [signedIn |-> signedIn, metaRole |-> metaRole,
               profileRole |-> row, profileRole0 |-> row]
    /\ \E emailBound \in BOOLEAN :
         dashboard = [pc |-> "getUser", items |-> <<>>, profile |-> Null,
                      loading |-> TRUE, error |-> Null, route |-> "/dashboard",
                      user |-> Null, failed |-> FALSE, fetched |-> Null,
                      emailBound |-> emailBound]

DashboardOnly == UNCHANGED <<searchVars, register, createItem, profileEdit>>

\* catch: setError(message); finally: setLoading(false)
DashboardCatch(d) ==
    [d EXCEPT !.error = "message", !.loading = FALSE, !.pc = "done"]

\* finally: setLoading(false)
DashboardFinally(d) == [d EXCEPT !.loading = FALSE, !.pc = "done"]

\* after setProfile: the role branches up to the await of the branch taken
DashboardBranch(d, profileData) ==
    IF ItemsTable(profileData, db.metaRole) = Null
      THEN DashboardFinally(d)
      ELSE [d EXCEPT !.pc = "loadItems"]

\* await supabase.auth.getUser() settles: the session's user, { user: null }
\* with an error beside it, which the code does not read, or a rejection
GetUserDone(outcome) ==
    LET user == IF outcome = "ok" /\ db.signedIn THEN "user" ELSE Null
        d == [dashboard EXCEPT !.user = user,
                               !.failed = (outcome # "ok")]
    IN  /\ dashboard.pc = "getUser"
        /\ dashboard' =
             IF outcome = "throw" THEN DashboardCatch(d)
             ELSE IF user = Null
               THEN DashboardFinally([d EXCEPT !.route = "/login"])
             ELSE [d EXCEPT !.pc = "selectProfile"]
        /\ UNCHANGED db
        /\ DashboardOnly

\* the select of the profile row settles; with no row the argument of the
\* insert is evaluated, which throws when email does not resolve
SelectProfileDone(outcome) ==
    LET d == [dashboard EXCEPT !.failed = (outcome # "ok")]
        profileData == db.profileRole
    IN  /\ dashboard.pc = "selectProfile"
        /\ dashboard' =
             IF outcome # "ok" THEN DashboardCatch(d)
             ELSE IF profileData = Null
               THEN IF dashboard.emailBound
                      THEN [d EXCEPT !.pc = "insertProfile"]
                      ELSE DashboardCatch(d)
             ELSE DashboardBranch([d EXCEPT !.profile = profileData], profileData)
        /\ UNCHANGED db
        /\ DashboardOnly

\* the insert of the missing profile row settles
InsertProfileDone(outcome) ==
    LET d == [dashboard EXCEPT !.failed = (outcome # "ok")]
        role == InsertedRole(db.metaRole)
    IN  /\ dashboard.pc = "insertProfile"
        /\ dashboard' =
             IF outcome # "ok" THEN DashboardCatch(d)
             ELSE DashboardBranch([d EXCEPT !.profile = role], Null)
        /\ db' = IF outcome = "ok" THEN [db EXCEPT !.profileRole = role] ELSE db
        /\ DashboardOnly

\* the select of the items settles, with or without rows
LoadItemsDone(outcome, rows) ==
    LET d == [dashboard EXCEPT !.failed = (outcome # "ok")]
        table == ItemsTable(db.profileRole0, db.metaRole)
    IN  /\ dashboard.pc = "loadItems"
        /\ dashboard' =
             IF outcome # "ok" THEN DashboardCatch(d)
             ELSE DashboardFinally([d EXCEPT !.items = [i \in 1..rows |-> table],
                                             !.fetched = table])
        /\ UNCHANGED db
        /\ DashboardOnly

DashboardNext ==
    \/ \E outcome \in CallOutcomes : GetUserDone(outcome)
    \/ \E outcome \in CallOutcomes : SelectProfileDone(outcome)
    \/ \E outcome \in CallOutcomes : InsertProfileDone(outcome)
    \/ \E outcome \in CallOutcomes, rows \in 0..1 : LoadItemsDone(outcome, rows)

DashboardSpec == DashboardInit /\ [][DashboardNext]_vars

----------------------------------------------------------------------------
(* Register: handleRegister *)

FormRoles == {"DONOR", "BENEFICIARY"}       \* the two options of the role select
Emails == {"ann@example.org", "bob@example.org"}
FullNames == {"Ann", "Bob"}

\* The registration form is on screen, filled in; the store holds neither
\* the auth user nor the profile row of the e-mail address
RegisterInit ==
    /\ SearchClosed
    /\ dashboard = Closed
    /\ createItem = Closed
    /\ profileEdit = Closed
    /\ db = [authUser |-> Null, profileRole |-> Null, fullName |-> Null]
    /\ \E role \in FormRoles, email \in Emails, fullName \in FullNames :
         register = [pc |-> "form", role |-> role, email |-> email,
                     fullName |-> fullName, loading |-> FALSE,
                     error |-> Null, user |-> Null, route |-> "/register",
                     authData |-> Null, submitsLeft |-> MaxInputs,
                     signedUp |-> FALSE, profiled |-> FALSE]

RegisterOnly == UNCHANGED <<searchVars, dashboard, createItem, profileEdit>>

\* catch: setError(message); finally: setLoading(false)
RegisterCatch(r) ==
    [r EXCEPT !.error = "message", !.loading = FALSE, !.pc = "form"]

\* onSubmit: setLoading(true); setError(null); signUp is sent
SubmitRegister ==
    /\ register.pc = "form"
    /\ register.route = "/register"
    /\ register.submitsLeft > 0
    /\ register' = [register EXCEPT !.pc = "signUp", !.loading = TRUE,
                                    !.error = Null, !.authData = Null,
                                    !.submitsLeft = @ - 1,
                                    !.signedUp = FALSE, !.profiled = FALSE]
    /\ UNCHANGED db
    /\ RegisterOnly

\* await supabase.auth.signUp(...) settles: the new user, no user, an error,
\* or a rejection; an address that has its auth user is not signed up again
SignUpDone(outcome) ==
    /\ register.pc = "signUp"
    /\ outcome = "ok" => db.authUser = Null
    /\ db' = [db EXCEPT !.authUser = IF outcome = "ok" THEN register.email ELSE @]
    /\ register' =
         IF outcome = "ok"
           THEN [register EXCEPT !.pc = "insertProfile", !.authData = "user",
                                 !.signedUp = TRUE]
           ELSE RegisterCatch(register)
    /\ RegisterOnly

\* the insert of the profile row settles; on { error } deleteUser is sent
ProfileInsertDone(outcome) ==
    /\ register.pc = "insertProfile"
    /\ db' = [db EXCEPT !.profileRole = IF outcome = "ok" THEN register.role ELSE @,
                        !.fullName = IF outcome = "ok" THEN register.fullName ELSE @]
    /\ register' =
         IF outcome = "ok"
           THEN [register EXCEPT !.user = register.authData,
                                 !.route = "/dashboard", !.loading = FALSE,
                                 !.pc = "form", !.profiled = TRUE]
         ELSE IF outcome = "error"
           THEN [register EXCEPT !.pc = "deleteUser"]
         ELSE RegisterCatch(register)
    /\ RegisterOnly

\* await supabase.auth.admin.deleteUser(id) settles: the user is deleted,
\* or the call answers { error }, which the code does not read, or it
\* rejects; then throw profileError
DeleteUserDone(outcome) ==
    /\ register.pc = "deleteUser"
    /\ db' = [db EXCEPT !.authUser = IF outcome = "ok" THEN Null ELSE @]
    /\ register' = RegisterCatch(register)
    /\ RegisterOnly

RegisterNext ==
    \/ SubmitRegister
    \/ \E outcome \in {"ok", "nouser", "error", "throw"} : SignUpDone(outcome)
    \/ \E outcome \in CallOutcomes : ProfileInsertDone(outcome)
    \/ \E outcome \in CallOutcomes : DeleteUserDone(outcome)

RegisterSpec == RegisterInit /\ [][RegisterNext]_vars

----------------------------------------------------------------------------
(* CreateItem: the photos of the listing form *)

MaxPhotos == 5                          \* the literal 5 of handlePhotoChange
MaxPhotoBytes == 5 * 1024 * 1024        \* 5MB limit
MaxPick == 3                            \* files in one selection of the file dialog

\* the files a selection is made of: an image of exactly 5MB, an image one
\* byte larger, a document
FileKinds ==
    {[type |-> "image/png", size |-> MaxPhotoBytes],
     [type |-> "image/jpeg", size |-> MaxPhotoBytes + 1],
     [type |-> "application/pdf", size |-> 1024]}

\* file.type.startsWith('image/')
IsImage(type) == Len(type) >= 6 /\ SubSeq(type, 1, 6) = "image/"

\* isValid && isValidSize
ValidFile(file) == IsImage(file.type) /\ file.size <= MaxPhotoBytes

\* faulty variant: no selection is refused for its size
TooManyNever(files, photos) == FALSE

\* files.length + formData.photos.length > 5
TooMany(files, photos) == Len(files) + Len(photos) > MaxPhotos

\* .slice(0, 5)
Slice5(s) == SubSeq(s, 1, Min(Len(s), MaxPhotos))

\* array.filter((_, i) => i !== index), index counted from 1
WithoutIndex(s, index) ==
    [j \in 1..(Len(s) - (IF index <= Len(s) THEN 1 ELSE 0)) |->
        IF j < index THEN s[j] ELSE s[j + 1]]

\* the selection of n files of the given kinds, numbered from id
Selection(kinds, id) ==
    [i \in 1..Len(kinds) |->
        [id |-> id + i - 1, type |-> kinds[i].type, size |-> kinds[i].size]]

\* the selections of the file dialog: up to MaxPick files, good ones but
\* possibly the first
PickKinds ==
    {[i \in 1..n |-> IF i = 1 THEN first
                     ELSE [type |-> "image/png", size |-> MaxPhotoBytes]] :
        n \in 1..MaxPick, first \in FileKinds}

\* The listing form is on screen with no photo
CreateItemInit ==
    /\ SearchClosed
    /\ dashboard = Closed
    /\ register = Closed
    /\ profileEdit = Closed
    /\ db = <<>>
    /\ createItem = [pc |-> "form", photos |-> <<>>, photoPreview |-> <<>>,
                     error |-> Null, readers |-> {}, nextFile |-> 1,
                     inputsLeft |-> MaxInputs + 1,
                     last |-> [kind |-> "mount", count |-> 0]]

CreateItemOnly == UNCHANGED <<searchVars, dashboard, register, profileEdit, db>>

\* handlePhotoChange: onChange of the file input with the selected files
HandlePhotoChange(kinds) ==
    LET files == Selection(kinds, createItem.nextFile)
        validFiles == SelectSeq(files, ValidFile)
        c == [createItem EXCEPT !.inputsLeft = @ - 1,
                               !.nextFile = @ + Len(files),
                               !.last = [kind |-> "pick", count |-> Len(files)]]
    IN  /\ createItem.inputsLeft > 0
        /\ createItem' =
             IF TooMany(files, createItem.photos)
               THEN [c EXCEPT !.error = "Maximum 5 photos allowed"]
               ELSE [c EXCEPT
                       !.error = IF Len(validFiles) # Len(files)
                                   THEN "Some files were skipped" ELSE @,
                       !.photos = Slice5(@ \o validFiles),
                       !.readers = @ \cup {validFiles[i].id :
                                              i \in 1..Len(validFiles)}]
        /\ CreateItemOnly

\* reader.onloadend of the file f: its preview is appended
ReaderLoadEnd(f) ==
    /\ f \in createItem.readers
    /\ createItem' = [createItem EXCEPT
                        !.readers = @ \ {f},
                        !.photoPreview = Slice5(Append(@, f)),
                        !.last = [kind |-> "preview", count |-> 0]]
    /\ CreateItemOnly

\* removePhoto(index), from the button drawn over the preview at index
RemovePhoto(index) ==
    /\ createItem.inputsLeft > 0
    /\ index \in 1..Len(createItem.photoPreview)
    /\ createItem' = [createItem EXCEPT
                        !.inputsLeft = @ - 1,
                        !.photos = WithoutIndex(@, index),
                        !.photoPreview = WithoutIndex(@, index),
                        !.last = [kind |-> "remove", count |-> index]]
    /\ CreateItemOnly

CreateItemNext ==
    \/ \E kinds \in PickKinds : HandlePhotoChange(kinds)
    \/ \E f \in createItem.readers : ReaderLoadEnd(f)
    \/ \E index \in 1..MaxPhotos : RemovePhoto(index)

CreateItemSpec == CreateItemInit /\ [][CreateItemNext]_vars

----------------------------------------------------------------------------
(* Profile: updateProfile and the biography *)

BioTexts == {"", "a", "ab"}             \* texts the biography textarea can hold

\* the three example biographies, cut to their first words
bioExamples == <<"Passionate donor", "Community advocate with a mission",
                 "Dedicated to sustainable living and community support">>

\* The profile page is on screen in edit mode; getProfile has loaded the
\* stored profile and set the counter from it
ProfileInit ==
    /\ SearchClosed
    /\ dashboard = Closed
    /\ register = Closed
    /\ createItem = Closed
    /\ \E biography \in BioTexts :
         /\ db = [biography |-> biography]
         /\ profileEdit = [pc |-> "editing",
                           profile |-> [biography |-> biography],
                           bioLength |-> Len(biography),
                           calls |-> {}, nextCall |-> 1,
                           inputsLeft |-> MaxInputs]

ProfileOnly == UNCHANGED <<searchVars, dashboard, register, createItem>>

\* updateProfile(updates) up to its await: the update is sent to the store
UpdateProfile(p, updates) ==
    [p EXCEPT !.calls = @ \cup {[id |-> p.nextCall, updates |-> updates,
                                 answer |-> "none"]},
              !.nextCall = @ + 1]

\* onChange of the biography textarea, which shows profile.biography:
\* updateProfile({ biography: e.target.value }); setBioLength(value.length)
EditBiography(text) ==
    /\ profileEdit.inputsLeft > 0
    /\ text # profileEdit.profile.biography
    /\ profileEdit' =
         [UpdateProfile(profileEdit, [biography |-> text])
            EXCEPT !.bioLength = Len(text), !.inputsLeft = @ - 1]
    /\ UNCHANGED db
    /\ ProfileOnly

\* generateBio: one of the examples; updateProfile; setBioLength
GenerateBio(i) ==
    /\ profileEdit.inputsLeft > 0
    /\ i \in 1..Len(bioExamples)
    /\ profileEdit' =
         [UpdateProfile(profileEdit, [biography |-> bioExamples[i]])
            EXCEPT !.bioLength = Len(bioExamples[i]), !.inputsLeft = @ - 1]
    /\ UNCHANGED db
    /\ ProfileOnly

\* an update reaches the store, which applies it or refuses it
UpdateArrives(c, outcome) ==
    /\ c \in profileEdit.calls
    /\ c.answer = "none"
    /\ db' = IF outcome = "ok" THEN [db EXCEPT !.biography = c.updates.biography]
             ELSE db
    /\ profileEdit' = [profileEdit EXCEPT
                         !.calls = (@ \ {c}) \cup {[c EXCEPT !.answer = outcome]}]
    /\ ProfileOnly

\* the awaited update settles in the page: if (error) throw error;
\* setProfile(prev => prev ? { ...prev, ...updates } : null); catch logs
UpdateSettles(c) ==
    /\ c \in profileEdit.calls
    /\ c.answer # "none"
    /\ profileEdit' = [profileEdit EXCEPT
                         !.calls = @ \ {c},
                         !.profile = IF c.answer = "ok"
                                       THEN [@ EXCEPT !.biography = c.updates.biography]
                                       ELSE @]
    /\ UNCHANGED db
    /\ ProfileOnly

ProfileNext ==
    \/ \E text \in BioTexts : EditBiography(text)
    \/ \E i \in 1..Len(bioExamples) : GenerateBio(i)
    \/ \E c \in profileEdit.calls, outcome \in {"ok", "error"} : UpdateArrives(c, outcome)
    \/ \E c \in profileEdit.calls : UpdateSettles(c)

ProfileSpec == ProfileInit /\ [][ProfileNext]_vars

----------------------------------------------------------------------------
(* Claims *)

Fired == ev.kind \in {"fire", "fireOrphan"}
Failed == ev.kind \in {"error", "throw"}
PageClicked == ev.kind \in {"prev", "next"}

\* C1 (as claimed): the rows and the count on display are those of the most
\* recently dispatched fetch among the fetches that completed with rows; a
\* fetch that completes after a later-dispatched one is never applied.
C1_AntiStale ==
    newest.id # 0 => results = newest.results /\ totalResults = newest.totalResults

\* C2 (as claimed): an input burst (inputs less than the debounce wait apart)
\* issues at most one remote call, the call carries the query in the URL when
\* it is issued, and once the burst has settled on a non-empty query the
\* call for it has been issued.
C2_DebounceCollapsing ==
    /\ calls <= 1
    /\ (Fired /\ ev.arg # "") => ev.arg = q
    /\ (~TimerPending /\ q # "") => served

\* C3: a debounced search that fires with the empty query issues no remote
\* call and leaves results, totalResults and loading as they were.
C3_EmptyQueryNoFetch ==
    [][(ev'.kind \in {"fire", "fireOrphan"} /\ ev'.arg = "")
         => UNCHANGED <<results, totalResults, loading, inflight, nextId>>]_vars

C3_Witness == Fired /\ ev.arg = "" /\ Len(results) > 0 /\ totalResults > 0

\* C4 (as claimed): after a failed fetch completes, loading is false, results
\* and totalResults are what they were before the fetch was dispatched, and
\* no fault has escaped.
C4_FailureRestoresDispatchState ==
    (mounted /\ Failed)
        => /\ loading = FALSE
           /\ results = last.prevResults
           /\ totalResults = last.prevTotal
           /\ ~fault

\* C4 (amended): the completion of a failed fetch sets loading to false and
\* leaves results and totalResults as they were just before the completion;
\* no fault escapes the handler.
C4_FailureKeepsPage ==
    [][(mounted /\ ev'.kind \in {"error", "throw"})
         => /\ loading' = FALSE
            /\ results' = results
            /\ totalResults' = totalResults
            /\ ~fault']_vars

C4_Witness == mounted /\ Failed /\ ~loading /\ Len(results) > 0 /\ ~fault

\* C5 (as claimed): a page click dispatches the fetch for the new page in the
\* same step, without a debounce wait.
C5_PageChangeImmediate ==
    [][(ev'.kind \in {"prev", "next"})
         => \E f \in inflight' : f.id = nextId /\ f.page = page' /\ f.query = q']_vars

\* C5 (amended): a page click dispatches nothing; it arms a fresh timer of the
\* full debounce wait for the current query and the new page.
C5_PageChangeDebounced ==
    [][(ev'.kind \in {"prev", "next"})
         => /\ inflight' = inflight
            /\ nextId' = nextId
            /\ inst'.armed
            /\ inst'.left = WaitTicks
            /\ inst'.page = page'
            /\ inst'.arg = q']_vars

C5_Witness ==
    PageClicked /\ page = 2 /\ inst.armed /\ inst.left = WaitTicks /\ inflight = {}

\* C6 (as claimed): a scheduled call that was pending when the view
\* unmounted, or when a newer debounced call (a page change included) was
\* issued within its wait, never fires: every remote call is dispatched by
\* the timer of the current debounced function of a mounted view.
C6_PendingCancelled ==
    (Fired /\ ev.arg # "") => (mounted /\ ev.kind = "fire")

\* C7 (as claimed): every dispatched fetch uses the page that is current when
\* its timer fires.
C7_FreshPageAtFire == (Fired /\ ev.arg # "") => ev.page = page

\* C8: once inputs have stopped with a non-empty query in the URL, a fetch
\* for that query and the current page has been dispatched since the last
\* change of query or page, and this stays so.
C8_LastInputFetched == <>[](q # "" => served)

C8_Witness == inputsLeft = 0 /\ q # "" /\ page = 2 /\ served /\ Fired

ClaimedPageCount(total) == Max(1, CeilDiv(total, ITEMS_PER_PAGE))

ClaimedTable == (0 :> 1) @@ (1 :> 1) @@ (12 :> 1) @@ (13 :> 2) @@ (24 :> 2) @@ (25 :> 3)

CeilTable == (0 :> 0) @@ (1 :> 1) @@ (12 :> 1) @@ (13 :> 2) @@ (24 :> 2) @@ (25 :> 3)

C10_ControlsDisabled ==
    /\ PrevDisabled <=> page = 1
    /\ NextDisabled <=> page >= ClaimedPageCount(totalResults)

C10_Witness == PaginationShown /\ page > 1 /\ NextDisabled /\ ~PrevDisabled

\* C11: a fetch for page p that completes with rows shows the rows
\* (p-1)*12 .. p*12-1 of the match list, as many as exist; with 13 matching
\* rows and the completion of the current page's fetch, page 1 shows 12
\* items with Next enabled, and page 2 shows 1 item with Next disabled and
\* Previous enabled.
C11_RangeAndThirteenRows ==
    (mounted /\ ev.kind = "ok")
        => /\ Len(results) = Max(0, Min(12, totalResults - (ev.page - 1) * 12))
           /\ \A i \in 1..Len(results) :
                 results[i].idx = (ev.page - 1) * 12 + i - 1
           /\ (totalResults = 13 /\ ev.page = page /\ page = 1)
                 => Len(results) = 12 /\ PaginationShown /\ ~NextDisabled
           /\ (totalResults = 13 /\ ev.page = page /\ page = 2)
                 => /\ Len(results) = 1
                    /\ PaginationShown
                    /\ NextDisabled
                    /\ ~PrevDisabled

C11_Witness ==
    /\ mounted
    /\ ev.kind = "ok"
    /\ ev.page = 2
    /\ page = 2
    /\ totalResults = 13
    /\ last.prevTotal = 13
    /\ Len(last.prevResults) = 12
    /\ Len(results) = 1

\* the handlers that call handleFilterChange()
ResettingKinds == {"toggleCategory", "toggleCondition", "chipCategory", "chipCondition"}

\* the handlers of the price inputs
PriceKinds == {"priceLower", "priceUpper"}

\* C12 (as claimed): after any filter mutation (category toggle, condition
\* toggle, chip removal, change of a price bound) the page is 1.
C12_FilterResetsPage ==
    ev.kind \in (ResettingKinds \cup PriceKinds) => page = 1

\* C13 (as claimed): a filter mutation dispatches no fetch and schedules no
\* debounced search, on page 1 or on any other page.
C13_FilterSchedulesNothing ==
    [][ev'.kind \in (ResettingKinds \cup PriceKinds)
         => /\ inflight' = inflight
            /\ ~(inst'.armed /\ inst' # inst)]_vars

\* C13 (amended): a filter mutation dispatches no fetch in its own step; a
\* toggle or a chip removal on a page other than 1 schedules one debounced
\* search for page 1 through the page reset; on page 1, and for a price
\* bound on any page, nothing is scheduled.
C13_FilterSchedulesOnPageReset ==
    [][ev'.kind \in (ResettingKinds \cup PriceKinds)
         => /\ inflight' = inflight
            /\ nextId' = nextId
            /\ IF ev'.kind \in ResettingKinds /\ page # 1
                 THEN inst' = [page |-> 1, armed |-> TRUE, arg |-> q,
                               left |-> WaitTicks]
                 ELSE inst' = inst]_vars

C13_Witness ==
    /\ ev.kind \in ResettingKinds
    /\ ev.page = 2
    /\ page = 1
    /\ inst = [page |-> 1, armed |-> TRUE, arg |-> q, left |-> WaitTicks]
    /\ \E f \in inflight : f.page = 2

\* C14: toggling a category or a condition value twice gives back the
\* selection it started from, as a set: whatever the current selection,
\* what the checkbox handler computes for a value, applied twice, has the
\* members of the current selection.
C14_ToggleTwice ==
    /\ \A c \in Categories :
         AsSet(Toggled(Toggled(selectedCategories, c), c)) = AsSet(selectedCategories)
    /\ \A c \in Conditions :
         AsSet(Toggled(Toggled(selectedConditions, c), c)) = AsSet(selectedConditions)

\* a condition has been checked and then unchecked while the other one
\* stays selected
C14_Witness ==
    /\ ev.kind = "toggleCondition"
    /\ Len(selectedConditions) = 1
    /\ ~Includes(selectedConditions, ev.arg)

\* C15: the remove button of a chip leaves the selection that unchecking the
\* value's checkbox leaves, resets the page to 1 and touches no other
\* filter, as the checkbox does.
C15_ChipAsUncheck ==
    [][/\ ev'.kind = "chipCategory"
          => /\ selectedCategories' = Unchecked(selectedCategories, ev'.arg)
             /\ selectedCategories' = Toggled(selectedCategories, ev'.arg)
             /\ page' = 1
             /\ UNCHANGED <<selectedConditions, priceRange, sortBy>>
       /\ ev'.kind = "chipCondition"
          => /\ selectedConditions' = Unchecked(selectedConditions, ev'.arg)
             /\ selectedConditions' = Toggled(selectedConditions, ev'.arg)
             /\ page' = 1
             /\ UNCHANGED <<selectedCategories, priceRange, sortBy>>]_vars

C15_Witness ==
    /\ ev.kind = "chipCondition"
    /\ ~Includes(selectedConditions, ev.arg)
    /\ ev.page = 2
    /\ page = 1

\* C16: typing in the search box dispatches the remote suggestion call in
\* the same step exactly when the typed text has at least 2 characters; a
\* shorter text empties the suggestion list in that step and dispatches no
\* remote call; no other step dispatches a suggestion call.
C16_SuggestFromTwoChars ==
    [][/\ ev'.kind = "type"
          => IF Len(ev'.arg) >= 2
               THEN /\ sugInflight' = Append(sugInflight, ev'.arg)
                    /\ suggestions' = suggestions
               ELSE /\ sugInflight' = sugInflight
                    /\ suggestions' = <<>>
       /\ ev'.kind # "type" => Len(sugInflight') <= Len(sugInflight)]_vars

\* the suggestion call for the typed text is out while the debounced search
\* for the same text has its whole wait ahead
C16_Witness ==
    /\ ev.kind = "type"
    /\ Len(ev.arg) >= 2
    /\ Len(sugInflight) > 0
    /\ sugInflight[Len(sugInflight)] = ev.arg
    /\ inst.armed
    /\ inst.arg = ev.arg
    /\ inst.left = WaitTicks

\* C17 (as claimed): selecting the suggestion s sets q to s and page to 1,
\* empties the suggestion list and schedules one new debounced search for s.
C17_SelectSchedulesSearch ==
    [][ev'.kind = "select"
         => /\ q' = ev'.arg
            /\ page' = 1
            /\ suggestions' = <<>>
            /\ inst' = [page |-> 1, armed |-> TRUE, arg |-> ev'.arg,
                        left |-> WaitTicks]]_vars

\* C17 (amended): selecting the suggestion s sets q to s and page to 1 and
\* empties the suggestion list; it dispatches nothing in its own step; it
\* schedules one new debounced search for s when s differs from q or the
\* page is not 1, and leaves the debounced function as it is otherwise.
C17_SelectSchedulesOnChange ==
    [][ev'.kind = "select"
         => /\ q' = ev'.arg
            /\ page' = 1
            /\ suggestions' = <<>>
            /\ inflight' = inflight
            /\ sugInflight' = sugInflight
            /\ IF ev'.arg # q \/ page # 1
                 THEN inst' = [page |-> 1, armed |-> TRUE, arg |-> ev'.arg,
                               left |-> WaitTicks]
                 ELSE inst' = inst]_vars

\* a suggestion equal to the text in the box has been selected on page 1
\* after the search for it had run: nothing is waiting
C17_Witness ==
    /\ ev.kind = "select"
    /\ q = ev.arg
    /\ page = 1
    /\ suggestions = <<>>
    /\ ~inst.armed
    /\ orphans = <<>>

\* the handlers that are neither a search nor a suggestion selection
NonSearchKinds ==
    ResettingKinds \cup PriceKinds \cup {"sort", "prev", "next"}

\* C18: q is the only field kept in the URL: a search (typed or selected)
\* leaves exactly the parameter q in the URL, with the searched text as its
\* value; the box shows that value; page, filter, price and sort changes
\* leave the URL as it is.
C18_UrlHoldsOnlyQ ==
    [][/\ ev'.kind \in {"type", "select"}
          => urlKeys' = {"q"} /\ q' = ev'.arg /\ BoxValue' = ev'.arg
       /\ ev'.kind \in NonSearchKinds
          => UNCHANGED <<urlKeys, q>> /\ BoxValue' = BoxValue]_vars

\* after a search from a link that carried other parameters, on a page other
\* than 1 and with a filter, a price bound or the sort order changed
C18_Witness ==
    /\ urlKeys = {"q"}
    /\ BoxValue = q
    /\ ev.kind \in NonSearchKinds
    /\ \/ page # 1
       \/ selectedCategories # <<>>
       \/ selectedConditions # <<>>
       \/ priceRange # <<0, 1000>>
       \/ sortBy # "newest"

\* C19 (as claimed): the price range always has 0 <= lower <= upper.
C19_PriceRangeOrdered ==
    0 <= priceRange[1] /\ priceRange[1] <= priceRange[2]

\* C20 (as claimed): "No results found" is on display only after a search
\* has completed with zero rows.
C20_NoResultsOnlyAfterEmptySearch ==
    (mounted /\ Rendered = "noResults")
        => \/ last.outcome = "ok" /\ totalResults = 0
           \/ newest.id # 0 /\ Len(newest.results) = 0

\* C21 (as claimed): while a dispatched search fetch stays uncompleted,
\* loading stays true, whatever else happens: no step that leaves a fetch
\* in flight turns loading from true to false.
C21_HungFetchKeepsLoading ==
    [][(mounted /\ loading /\ (inflight \cap inflight') # {}) => loading']_vars

\* C25 (as claimed): loading is true in every state in which a search fetch
\* has been dispatched and has not completed.
C25_LoadingWhileInFlight ==
    (mounted /\ inflight # {}) => loading

\* C26 (as claimed): page >= 1, and whenever no search is waiting or in
\* flight, page <= max(1, ceil(totalResults / 12)).
C26_PageWithinLastPage ==
    /\ page >= 1
    /\ (mounted /\ ~TimerPending /\ inflight = {})
         => page <= Max(1, PageCount(totalResults))

\* C27 (as claimed): once the list has been cleared by a text shorter than 2
\* characters it stays empty until the next keystroke of 2 characters or
\* more: while the box holds a shorter text, the list is empty.
C27_ClearedStaysEmpty ==
    (mounted /\ Len(q) < 2) => suggestions = <<>>

\* C22 (as claimed): when loadDashboardData has finished, loading is false;
\* if a remote call in it failed, the error banner is on display and items
\* are as they were; if no call failed and there is no authenticated user,
\* the view has navigated to /login and no error is set.
C22_DashboardLoadEnds ==
    dashboard.pc = "done"
        => /\ dashboard.loading = FALSE
           /\ dashboard.failed
                => /\ dashboard.error # Null
                   /\ DashboardRendered = "banner"
                   /\ dashboard.items = <<>>
           /\ (~dashboard.failed /\ ~db.signedIn)
                => dashboard.route = "/login" /\ dashboard.error = Null

\* C30 (as claimed): when an authenticated user has no profile row and no
\* remote call fails, loadDashboardData ends with the profile row inserted
\* with the role of the sign-up metadata (DONOR by default), that profile as
\* the current one, that role's items read, and no error.
C30_MissingProfileRecovery ==
    (dashboard.pc = "done" /\ db.signedIn /\ db.profileRole0 = Null
       /\ ~dashboard.failed)
        => /\ db.profileRole = InsertedRole(db.metaRole)
           /\ dashboard.profile = InsertedRole(db.metaRole)
           /\ dashboard.fetched = RoleTable(InsertedRole(db.metaRole))
           /\ dashboard.error = Null

\* C24 (as claimed): when handleRegister has finished, the store holds no
\* auth user without a profile row; setUser and the navigation to
\* /dashboard have happened only if both the sign-up and the profile
\* creation succeeded; loading is false.
C24_RegistrationConsistent ==
    (register.pc = "form" /\ register.submitsLeft < MaxInputs)
        => /\ db.authUser # Null => db.profileRole # Null
           /\ (register.user # Null \/ register.route = "/dashboard")
                => register.signedUp /\ register.profiled
           /\ register.loading = FALSE

\* C23: at most 5 photos are held and every held photo is an image of at
\* most 5MB; a selection whose files, added to the held photos, would be
\* more than 5 sets the error and leaves the photo list as it was.
C23_PhotoLimits ==
    /\ [](/\ Len(createItem.photos) <= 5
          /\ \A i \in 1..Len(createItem.photos) :
               /\ createItem.photos[i].type \in {"image/png", "image/jpeg"}
               /\ createItem.photos[i].size <= 5242880)
    /\ [][(createItem'.last.kind = "pick"
            /\ createItem'.last.count + Len(createItem.photos) > 5)
           => /\ createItem'.photos = createItem.photos
              /\ createItem'.error = "Maximum 5 photos allowed"]_vars

\* five photos are held and a further selection has just been refused
C23_Witness ==
    /\ createItem.last.kind = "pick"
    /\ Len(createItem.photos) = 5
    /\ createItem.error = "Maximum 5 photos allowed"
    /\ createItem.nextFile > 6

\* C29 (as claimed): the preview at index i is the preview of the photo held
\* at index i.
C29_PreviewMatchesPhoto ==
    \A i \in 1..Len(createItem.photoPreview) :
        /\ i <= Len(createItem.photos)
        /\ createItem.photoPreview[i] = createItem.photos[i].id

\* C28 (as claimed): once every updateProfile call has completed, the
\* profile on display equals the stored profile and the biography counter
\* equals the length of the biography on display.
C28_ProfileInSync ==
    (profileEdit.nextCall > 1 /\ profileEdit.calls = {})
        => /\ profileEdit.profile.biography = db.biography
           /\ profileEdit.bioLength = Len(profileEdit.profile.biography)

============================================================================
